---- MODULE Spec2Model ----
(***************************************************************************)
(* Model of luminance's GPU buffer module (src/src/buffer.rs): Buffer<T>,  *)
(* RawBuffer, BufferSlice and BufferSliceMut over an OpenGL driver and the *)
(* GraphicsState tracker of the bound array buffer.                        *)
(*                                                                         *)
(* One action is one whole method call (or one drop).  The program is      *)
(* single threaded; the guards of the actions are Rust's borrow rules:     *)
(* a &mut self method needs no live view of the buffer, a &self method     *)
(* needs no live mutable view, a move or a drop needs no live view.        *)
(***************************************************************************)
EXTENDS Integers, Sequences, FiniteSets, TLC

\* ------------------------------------------------------------- bounds
\* Elements the live buffers hold in all; so the largest len of Buffer::new.
MaxLen == 2
\* Buffer::new calls in one run.
MaxCreates == 2
\* Width of usize / isize in bits (scaled down).
WordBits == 16

Word == 2 ^ WordBits
\* Program variables that can hold a buffer.
Slots == {1, 2}
\* Buffer names the driver hands out (0 is "no buffer").
Handles == {1, 2}
\* Element values.
Values == {0, 1}
\* mem::size_of::<T>() of the element types used (0: a zero-sized type).
ElemSizes == {0, 4}
\* Indices passed to at / set.
Idx == 0 .. (MaxLen + 1)
\* Element counts passed to Buffer::new.
Lens == 0 .. MaxLen

\* The values a T of the given size can take (a zero-sized type has one).
ValuesOf(size) == IF size = 0 THEN {0} ELSE Values
SeqsOf(n, S) == [1 .. n -> S]
\* The slices &[T] passed to write_whole / fill.
Slices(size) == UNION {SeqsOf(n, ValuesOf(size)) : n \in 0 .. (MaxLen + 1)}

VARIABLES
  bufs,                \* slot -> the Buffer<T> / RawBuffer it holds
  views,               \* slot -> number of live BufferSlice of its buffer
  mutviews,            \* slot -> a BufferSliceMut of its buffer is live
  rc,                  \* strong count of the Rc<RefCell<GraphicsState>>
  bound_array_buffer,  \* GraphicsState: the handle it records as bound
  gl_bound,            \* driver: the name bound to ARRAY_BUFFER
  gl_names,            \* driver: names generated and not deleted
  gl_store,            \* driver: name -> data store (elements)
  gl_mapped,           \* driver: names whose store is mapped
  calls,               \* the driver calls of the last operation, in order
  last,                \* the last operation: what was called, what it returned
  crashed,             \* the process died on an invalid memory access
  asked,               \* slot -> the len given to Buffer::new
  destroys,            \* slot -> DeleteBuffers calls issued for its buffer
  ncreated,            \* Buffer::new calls so far
  queried              \* the type last asked for UniformBlock, and the answer

vars == <<bufs, views, mutviews, rc, bound_array_buffer, gl_bound, gl_names,
          gl_store, gl_mapped, calls, last, crashed, asked, destroys, ncreated,
          queried>>

driver == <<bound_array_buffer, gl_bound, gl_names, gl_store, gl_mapped>>

\* ------------------------------------------------------ the GL driver
\* The driver and tracker state threaded through one operation.
GS == [bound_array_buffer |-> bound_array_buffer, gl_bound |-> gl_bound,
       gl_names |-> gl_names, gl_store |-> gl_store, gl_mapped |-> gl_mapped,
       calls |-> <<>>]

CallRec(fn, h, n, acc, ret) == [fn |-> fn, h |-> h, n |-> n, acc |-> acc, ret |-> ret]
Call(g, c) == [g EXCEPT !.calls = Append(@, c)]

\* usize arithmetic and the `as isize` cast.
WrappingMul(a, b) == (a * b) % Word
AsIsize(x) == IF x >= Word \div 2 THEN x - Word ELSE x
\* Elements of the given size that fit in a store of the given bytes.
ElemCount(bytes, size) == IF size = 0 \/ AsIsize(bytes) < 0 THEN 0 ELSE bytes \div size

\* gl::GenBuffers(1, &mut buffer): an unused name h is marked used.
GenBuffers(g, h) ==
  Call([g EXCEPT !.gl_names = @ \cup {h}], CallRec("GenBuffers", h, 0, "", ""))

\* gl::BindBuffer(ARRAY_BUFFER, h).
BindBuffer(g, h) ==
  Call([g EXCEPT !.gl_bound = h], CallRec("BindBuffer", h, 0, "", ""))

\* GraphicsState::bind_array_buffer: binds only when the record differs.
bind_array_buffer(g, handle) ==
  LET g1 == Call(g, CallRec("bind_array_buffer", handle, 0, "", ""))
  IN IF g1.bound_array_buffer # handle
       THEN [BindBuffer(g1, handle) EXCEPT !.bound_array_buffer = handle]
       ELSE g1

\* gl::BufferData(ARRAY_BUFFER, bytes as isize, null, STREAM_DRAW): a new data
\* store of undefined contents (init) for the bound name; an error, and no
\* effect, when no name is bound or the size is negative.
BufferData(g, bytes, init) ==
  LET g1 == Call(g, CallRec("BufferData", g.gl_bound, bytes, "", ""))
  IN IF g.gl_bound = 0 \/ AsIsize(bytes) < 0
       THEN g1
       ELSE [g1 EXCEPT !.gl_store[g.gl_bound] = init,
                       !.gl_mapped = @ \ {g.gl_bound}]

\* The pointer gl::MapBuffer returns: the mapped name, or 0 (null) when no
\* name is bound, the store is already mapped or the driver refuses (~ok).
MapRet(g, ok) ==
  IF g.gl_bound # 0 /\ g.gl_bound \notin g.gl_mapped /\ ok THEN g.gl_bound ELSE 0

\* gl::MapBuffer(ARRAY_BUFFER, access).
MapBuffer(g, access, ok) ==
  LET ptr == MapRet(g, ok)
      g1 == Call(g, CallRec("MapBuffer", g.gl_bound, 0, access,
                            IF ptr = 0 THEN "null" ELSE "ptr"))
  IN IF ptr = 0 THEN g1 ELSE [g1 EXCEPT !.gl_mapped = @ \cup {ptr}]

\* gl::UnmapBuffer(ARRAY_BUFFER): releases the mapping of the bound name.
UnmapBuffer(g) ==
  Call([g EXCEPT !.gl_mapped = @ \ {g.gl_bound}],
       CallRec("UnmapBuffer", g.gl_bound, 0, "", ""))

\* gl::DeleteBuffers(1, &h): the name is freed, its store released and
\* unmapped, and a binding to it reverts to 0.
DeleteBuffers(g, h) ==
  Call([g EXCEPT !.gl_names = @ \ {h},
                 !.gl_store[h] = <<>>,
                 !.gl_mapped = @ \ {h},
                 !.gl_bound = IF @ = h THEN 0 ELSE @],
       CallRec("DeleteBuffers", h, 0, "", ""))

\* ---------------------------------------------------------- RawBuffer
NoBuffer == [kind |-> "none", handle |-> 0, bytes |-> 0, len |-> 0, size |-> 0]

\* struct RawBuffer { handle, bytes, len, state }, with the T it was made for.
RawBuffer(kind, handle, bytes, len, size) ==
  [kind |-> kind, handle |-> handle, bytes |-> bytes, len |-> len, size |-> size]

Live(b) == bufs[b].kind \in {"typed", "raw"}

\* What an operation hands back: the driver state it leaves and its result.
Ret(g, tag, x, y, vec) == [g |-> g, tag |-> tag, x |-> x, y |-> y, vec |-> vec]

\* The record of an operation on a buffer of n elements.
LastRec(op, b, n, i, v, vals, r) ==
  [op |-> op, buf |-> b, n |-> n, i |-> i, v |-> v, vals |-> vals,
   tag |-> r.tag, x |-> r.x, y |-> r.y, vec |-> r.vec]

NoLast ==
  [op |-> "init", buf |-> 0, n |-> 0, i |-> 0, v |-> 0, vals |-> <<>>,
   tag |-> "", x |-> 0, y |-> 0, vec |-> <<>>]

\* No call is in progress: the caller is between two statements.
Idle == ~crashed /\ last = NoLast

\* The operation returned: the driver is left as the operation left it.
Commit(r, op, b, i, v, vals) ==
  /\ r.tag \notin {"crash", "panic"}
  /\ bound_array_buffer' = r.g.bound_array_buffer
  /\ gl_bound' = r.g.gl_bound
  /\ gl_names' = r.g.gl_names
  /\ gl_store' = r.g.gl_store
  /\ gl_mapped' = r.g.gl_mapped
  /\ calls' = r.g.calls
  /\ last' = LastRec(op, b, bufs[b].len, i, v, vals, r)
  /\ crashed' = FALSE
  /\ UNCHANGED queried

\* The operation killed the process (an invalid memory access, or a panic that
\* nothing catches): its memory and its GL context are gone;
\* what remains is what was called and how far it got.
Crash(r, op, b, i, v, vals) ==
  /\ r.tag \in {"crash", "panic"}
  /\ bufs' = [s \in Slots |-> NoBuffer]
  /\ views' = [s \in Slots |-> 0]
  /\ mutviews' = [s \in Slots |-> FALSE]
  /\ rc' = 0
  /\ bound_array_buffer' = 0
  /\ gl_bound' = 0
  /\ gl_names' = {}
  /\ gl_store' = [h \in Handles |-> <<>>]
  /\ gl_mapped' = {}
  /\ calls' = r.g.calls
  /\ last' = LastRec(op, b, bufs[b].len, i, v, vals, r)
  /\ crashed' = TRUE
  /\ asked' = [s \in Slots |-> 0]
  /\ destroys' = [s \in Slots |-> 0]
  /\ ncreated' = ncreated
  /\ UNCHANGED queried

\* An operation that can die on a memory access: it returns or it crashes.
Finish(r, op, b, i, v, vals) ==
  \/ /\ Commit(r, op, b, i, v, vals)
     /\ UNCHANGED <<bufs, views, mutviews, rc, asked, destroys, ncreated>>
  \/ Crash(r, op, b, i, v, vals)

\* ------------------------------------------------- trait UniformBlock
\* Largest tuple arity and largest array length asked about.
MaxArity == 11
MaxArrayLen == 5

\* A Rust type: a named scalar or matrix, an array [name; n], a slice [of[1]]
\* or a tuple of the components of.
Ty(kind, name, n, of) == [kind |-> kind, name |-> name, n |-> n, of |-> of]
NoType == Ty("none", "", 0, <<>>)
NoQuery == [ty |-> NoType, impl |-> FALSE]

\* unsafe impl UniformBlock for <scalar> {}
ScalarImpls == {"u8", "u16", "u32", "i8", "i16", "i32", "f32", "f64", "bool"}
\* unsafe impl UniformBlock for M22 / M33 / M44 {}
MatrixImpls == {"M22", "M33", "M44"}
\* unsafe impl UniformBlock for [<scalar>; 2 / 3 / 4] {}
ArrayImpls == ScalarImpls \X {2, 3, 4}
\* The arities for which impl_uniform_block_tuple! is invoked: (A, B) up to
\* (A, B, C, D, E, F, G, H, I, J).
impl_uniform_block_tuple_upto_I == 2 .. 9
impl_uniform_block_tuple == 2 .. 10

\* Whether the impls above make ty a UniformBlock.
RECURSIVE UniformBlock(_)
UniformBlock(ty) ==
  CASE ty.kind = "scalar" -> ty.name \in ScalarImpls
    [] ty.kind = "matrix" -> ty.name \in MatrixImpls
    [] ty.kind = "array" -> <<ty.name, ty.n>> \in ArrayImpls
    [] ty.kind = "slice" -> UniformBlock(ty.of[1])
    [] ty.kind = "tuple" ->
         /\ Len(ty.of) \in impl_uniform_block_tuple
         /\ \A k \in 1 .. Len(ty.of) : UniformBlock(ty.of[k])
    [] OTHER -> FALSE

\* The types asked about: scalars with and without an impl, the matrices,
\* arrays of every scalar, slices of those, and tuples of two component types.
ScalarNames == ScalarImpls \cup {"u64", "i64", "usize", "char"}
ScalarTypes == {Ty("scalar", nm, 0, <<>>) : nm \in ScalarNames}
MatrixTypes == {Ty("matrix", nm, 0, <<>>) : nm \in MatrixImpls \cup {"M23"}}
ArrayTypes == {Ty("array", nm, n, <<>>) : nm \in ScalarNames, n \in 1 .. MaxArrayLen}
SliceTypes == {Ty("slice", "", 0, <<t>>) : t \in ScalarTypes \cup MatrixTypes \cup ArrayTypes}
Components == {Ty("scalar", "f32", 0, <<>>), Ty("scalar", "u64", 0, <<>>)}
TupleTypes == {Ty("tuple", "", 0, of) : of \in UNION {[1 .. n -> Components] : n \in 0 .. MaxArity}}
Types == ScalarTypes \cup MatrixTypes \cup ArrayTypes \cup SliceTypes \cup TupleTypes

\* A use of a type where T: UniformBlock is required: the compiler accepts it
\* or not.  One type is asked about in a run.
UniformBlock_query ==
  \E ty \in Types :
    /\ queried = NoQuery
    /\ queried' = [ty |-> ty, impl |-> UniformBlock(ty)]
    /\ UNCHANGED <<bufs, views, mutviews, rc, bound_array_buffer, gl_bound,
                   gl_names, gl_store, gl_mapped, calls, last, crashed, asked,
                   destroys, ncreated>>

Init ==
  /\ bufs = [b \in Slots |-> NoBuffer]
  /\ views = [b \in Slots |-> 0]
  /\ mutviews = [b \in Slots |-> FALSE]
  /\ rc = 1
  /\ bound_array_buffer = 0
  /\ gl_bound = 0
  /\ gl_names = {}
  /\ gl_store = [h \in Handles |-> <<>>]
  /\ gl_mapped = {}
  /\ calls = <<>>
  /\ last = NoLast
  /\ crashed = FALSE
  /\ asked = [b \in Slots |-> 0]
  /\ destroys = [b \in Slots |-> 0]
  /\ ncreated = 0
  /\ queried = NoQuery

\* ------------------------------------------------------- Buffer::new
new(g, h, size, len, init) ==
  LET bytes == WrappingMul(size, len)
      g1 == GenBuffers(g, h)
      g2 == bind_array_buffer(g1, h)
      g3 == BufferData(g2, bytes, init)
  IN [g |-> g3, raw |-> RawBuffer("typed", h, bytes, len, size)]

\* The slot a new buffer goes to: the first free one (slots are only names).
FreeSlot(b) == ~Live(b) /\ \A s \in Slots : s < b => Live(s)
\* What a buffer of n elements takes of the MaxLen elements a run may hold; a
\* buffer longer than MaxLen takes them all.
Weight(n) == IF n <= MaxLen THEN n ELSE MaxLen
LiveElems == Weight(bufs[1].len) + Weight(bufs[2].len)

\* Element counts whose byte size does not fit: size_of * len is negative as
\* an isize for the first, and wraps around for the second.
LargeLens == {Word \div 8, Word \div 4 + 1}

\* Whether a build with overflow checks is what runs matters only when
\* size * n overflows usize.
OverflowChecksOf(size, n) == IF size * n >= Word THEN BOOLEAN ELSE {FALSE}

\* Buffer::new::<T>(ctx, n) into slot b, the driver handing out name h.  When
\* size_of::<T>() * n overflows usize, a build with overflow checks panics
\* there and a build without wraps (overflow_checks is the build's choice).
NewStep(b, h, size, n, init, overflow_checks) ==
  /\ Idle
  /\ FreeSlot(b)
  /\ ncreated < MaxCreates
  /\ Weight(n) + LiveElems <= MaxLen
  /\ IF overflow_checks
       THEN Crash(Ret(GS, "panic", 0, 0, <<>>), "new", b, n, 0, <<>>)
       ELSE /\ LET r == new(GS, h, size, n, init)
               IN /\ bufs' = [bufs EXCEPT ![b] = r.raw]
                  /\ Commit(Ret(r.g, "Buffer", h, 0, <<>>), "new", b, n, 0, <<>>)
            /\ rc' = rc + 1
            /\ asked' = [asked EXCEPT ![b] = n]
            /\ destroys' = [destroys EXCEPT ![b] = 0]
            /\ ncreated' = ncreated + 1
            /\ UNCHANGED <<views, mutviews>>

Buffer_new ==
  \E b \in Slots, h \in Handles \ gl_names, size \in ElemSizes, n \in Lens :
    \E init \in SeqsOf(ElemCount(WrappingMul(size, n), size), Values),
       overflow_checks \in OverflowChecksOf(size, n) :
      NewStep(b, h, size, n, init, overflow_checks)

\* Buffer::new with an element count near the top of usize.
Buffer_new_large ==
  \E b \in Slots, h \in Handles \ gl_names, size \in ElemSizes, n \in LargeLens :
    \E init \in SeqsOf(ElemCount(WrappingMul(size, n), size), Values),
       overflow_checks \in OverflowChecksOf(size, n) :
      NewStep(b, h, size, n, init, overflow_checks)

\* A len that hands out the byte size instead of the element count.
len_bytes(raw) == raw.bytes

\* Buffer::len (through Deref to RawBuffer).
len(raw) == raw.len

\* -------------------------------------------------------- Buffer::at
\* The bounds check of at.
at_out_of_bounds(i, raw) == i >= raw.len

\* An element access through ptr at offset i touches mapped memory only when
\* ptr is a mapping and element i lies in the mapped store; an access of a
\* zero-sized T touches no memory.
ValidAccess(g, raw, ptr, i) ==
  raw.size = 0 \/ (ptr # 0 /\ i < Len(g.gl_store[ptr]))

\* The access of element i that an operation on raw makes after binding and
\* mapping is invalid (i is within raw.len, the mapping does not hold it).
Invalid(raw, i, ok) ==
  /\ i < raw.len
  /\ LET g1 == bind_array_buffer(GS, raw.handle)
     IN ~ValidAccess(g1, raw, MapRet(g1, ok), i)

\* Whether the driver grants a map request is its choice only when it can
\* grant it: once raw.handle is bound, it is not mapped already.
OkOf(raw) == IF raw.handle \in gl_mapped THEN {FALSE} ELSE BOOLEAN

\* The outcomes of an invalid access: any value read, and a crash or not.
JunkOf(raw, i, ok) == IF Invalid(raw, i, ok) THEN Values ELSE {0}
CrashOf(raw, i, ok) == IF Invalid(raw, i, ok) THEN BOOLEAN ELSE {FALSE}

\* at: junk and crash are the outcomes of the read when it is invalid.
at(g, raw, i, ok, junk, crash) ==
  IF at_out_of_bounds(i, raw)
    THEN Ret(g, "None", 0, 0, <<>>)
    ELSE LET g1 == bind_array_buffer(g, raw.handle)
             ptr == MapRet(g1, ok)
             g2 == MapBuffer(g1, "READ_ONLY", ok)
             valid == ValidAccess(g2, raw, ptr, i)
             x == IF raw.size = 0 THEN 0
                  ELSE IF valid THEN g2.gl_store[ptr][i + 1] ELSE junk
         IN IF ~valid /\ crash
              THEN Ret(g2, "crash", 0, 0, <<>>)
              ELSE Ret(UnmapBuffer(g2), "Some", x, 0, <<>>)

Buffer_at ==
  \E b \in Slots, i \in Idx : \E ok \in OkOf(bufs[b]) :
    \E junk \in JunkOf(bufs[b], i, ok), crash \in CrashOf(bufs[b], i, ok) :
      /\ Idle
      /\ bufs[b].kind = "typed"
      /\ ~mutviews[b]
      /\ Finish(at(GS, bufs[b], i, ok, junk, crash), "at", b, i, 0, <<>>)

\* ----------------------------------------------------- Buffer::whole
\* whole: Vec::from_raw_parts adopts the mapped pointer, which is unmapped
\* before the Vec is returned; out and crash are the outcomes of reading (or
\* freeing) the Vec.  A Vec of no elements or of a zero-sized T touches no
\* memory.  x is the address of the Vec's storage: the pointer MapBuffer
\* returned.
whole(g, raw, ok, out, crash) ==
  LET g1 == bind_array_buffer(g, raw.handle)
      ptr == MapRet(g1, ok)
      g2 == MapBuffer(g1, "READ_ONLY", ok)
      g3 == UnmapBuffer(g2)
  IN IF raw.size = 0 \/ raw.len = 0
       THEN Ret(g3, "Vec", ptr, 0, [k \in 1 .. raw.len |-> 0])
       ELSE IF crash THEN Ret(g3, "crash", 0, 0, <<>>)
            ELSE Ret(g3, "Vec", ptr, 0, out)

Buffer_whole ==
  \E b \in Slots : \E ok \in OkOf(bufs[b]) :
    \E out \in SeqsOf(bufs[b].len, ValuesOf(bufs[b].size)),
       crash \in (IF bufs[b].size = 0 \/ bufs[b].len = 0 THEN {FALSE} ELSE BOOLEAN) :
      /\ Idle
      /\ bufs[b].kind = "typed"
      /\ ~mutviews[b]
      /\ Finish(whole(GS, bufs[b], ok, out, crash), "whole", b, 0, 0, <<>>)

\* ------------------------------------------------------- Buffer::set
\* A bounds check of set that lets the index len through.
set_overflow_past_end(i, raw) == i > raw.len

\* The bounds check of set.
set_overflow(i, raw) == i >= raw.len

\* A set that maps whatever is bound, without binding its own handle.
set_unbound(g, raw, i, x, ok, crash) ==
  IF i >= raw.len
    THEN Ret(g, "Overflow", i, raw.len, <<>>)
    ELSE LET ptr == MapRet(g, ok)
             g2 == MapBuffer(g, "WRITE_ONLY", ok)
             valid == raw.size = 0 \/ (ptr # 0 /\ i < Len(g2.gl_store[ptr]))
             g3 == IF raw.size # 0 /\ valid
                     THEN [g2 EXCEPT !.gl_store[ptr][i + 1] = x]
                     ELSE g2
         IN IF ~valid /\ crash
              THEN Ret(g2, "crash", 0, 0, <<>>)
              ELSE Ret(UnmapBuffer(g3), "Ok", 0, 0, <<>>)

\* A set that writes x over every element of the mapping.
set_all(g, raw, i, x, ok, crash) ==
  IF i >= raw.len
    THEN Ret(g, "Overflow", i, raw.len, <<>>)
    ELSE LET g1 == bind_array_buffer(g, raw.handle)
             ptr == MapRet(g1, ok)
             g2 == MapBuffer(g1, "WRITE_ONLY", ok)
             valid == raw.size = 0 \/ (ptr # 0 /\ i < Len(g2.gl_store[ptr]))
             g3 == IF raw.size # 0 /\ valid
                     THEN [g2 EXCEPT !.gl_store[ptr] = [k \in 1 .. Len(@) |-> x]]
                     ELSE g2
         IN IF ~valid /\ crash
              THEN Ret(g2, "crash", 0, 0, <<>>)
              ELSE Ret(UnmapBuffer(g3), "Ok", 0, 0, <<>>)

\* A set that asks for a read-write mapping.
set_read_write(g, raw, i, x, ok, crash) ==
  IF i >= raw.len
    THEN Ret(g, "Overflow", i, raw.len, <<>>)
    ELSE LET g1 == bind_array_buffer(g, raw.handle)
             ptr == MapRet(g1, ok)
             g2 == MapBuffer(g1, "READ_WRITE", ok)
             valid == raw.size = 0 \/ (ptr # 0 /\ i < Len(g2.gl_store[ptr]))
             g3 == IF raw.size # 0 /\ valid
                     THEN [g2 EXCEPT !.gl_store[ptr][i + 1] = x]
                     ELSE g2
         IN IF ~valid /\ crash
              THEN Ret(g2, "crash", 0, 0, <<>>)
              ELSE Ret(UnmapBuffer(g3), "Ok", 0, 0, <<>>)

\* set: an invalid write either kills the process (crash) or is lost.
set(g, raw, i, x, ok, crash) ==
  IF set_overflow(i, raw)
    THEN Ret(g, "Overflow", i, raw.len, <<>>)
    ELSE LET g1 == bind_array_buffer(g, raw.handle)
             ptr == MapRet(g1, ok)
             g2 == MapBuffer(g1, "WRITE_ONLY", ok)
             valid == ValidAccess(g2, raw, ptr, i)
             g3 == IF raw.size # 0 /\ valid
                     THEN [g2 EXCEPT !.gl_store[ptr][i + 1] = x]
                     ELSE g2
         IN IF ~valid /\ crash
              THEN Ret(g2, "crash", 0, 0, <<>>)
              ELSE Ret(UnmapBuffer(g3), "Ok", 0, 0, <<>>)

Buffer_set ==
  \E b \in Slots, i \in Idx : \E ok \in OkOf(bufs[b]) :
    \E x \in ValuesOf(bufs[b].size), crash \in CrashOf(bufs[b], i, ok) :
      /\ Idle
      /\ bufs[b].kind = "typed"
      /\ views[b] = 0 /\ ~mutviews[b]
      /\ Finish(set(GS, bufs[b], i, x, ok, crash), "set", b, i, x, <<>>)

\* ----------------------------------------------- Buffer::write_whole
\* write_whole: the byte sizes are compared, not the element counts; an
\* invalid copy either kills the process (crash) or is lost.
write_whole(g, raw, values, ok, crash) ==
  LET n == Len(values)
      in_bytes == WrappingMul(n, raw.size)
      \* elements in the real_bytes = in_bytes bytes that are copied
      k == ElemCount(in_bytes, raw.size)
  IN IF in_bytes < raw.bytes THEN Ret(g, "TooFewValues", n, raw.len, <<>>)
     ELSE IF in_bytes > raw.bytes THEN Ret(g, "TooManyValues", n, raw.len, <<>>)
     ELSE LET g1 == bind_array_buffer(g, raw.handle)
              ptr == MapRet(g1, ok)
              g2 == MapBuffer(g1, "WRITE_ONLY", ok)
              valid == in_bytes = 0 \/ (ptr # 0 /\ k <= Len(g2.gl_store[ptr]))
              g3 == IF in_bytes # 0 /\ valid
                      THEN [g2 EXCEPT !.gl_store[ptr] =
                              SubSeq(values, 1, k) \o SubSeq(@, k + 1, Len(@))]
                      ELSE g2
          IN IF ~valid /\ crash
               THEN Ret(g2, "crash", 0, 0, <<>>)
               ELSE Ret(UnmapBuffer(g3), "Ok", 0, 0, <<>>)

\* The copy write_whole makes after binding and mapping is invalid: there are
\* bytes to copy and the mapping does not hold them.
InvalidCopy(raw, values, ok) ==
  /\ WrappingMul(Len(values), raw.size) = raw.bytes
  /\ raw.bytes # 0
  /\ LET g1 == bind_array_buffer(GS, raw.handle)
         ptr == MapRet(g1, ok)
     IN ptr = 0 \/ ElemCount(raw.bytes, raw.size) > Len(g1.gl_store[ptr])

\* The slice write_whole copied from: none when it returned before the copy.
Copied(r, values) ==
  IF r.tag \in {"TooFewValues", "TooManyValues"} THEN <<>> ELSE values

\* What the three bulk writes share: all of them are one write_whole call;
\* last.i is the length of the slice given, last.vals the slice copied from.
BulkWrite(op, b, values, ok) ==
  \E crash \in (IF InvalidCopy(bufs[b], values, ok) THEN BOOLEAN ELSE {FALSE}) :
    /\ Idle
    /\ bufs[b].kind = "typed"
    /\ ~mutviews[b]
    /\ LET r == write_whole(GS, bufs[b], values, ok, crash)
     IN Finish(r, op, b, Len(values), 0, Copied(r, values))

Buffer_write_whole ==
  \E b \in Slots : \E ok \in OkOf(bufs[b]) :
    \E values \in Slices(bufs[b].size) :
      BulkWrite("write_whole", b, values, ok)

\* clear: write_whole(&vec![x; self.len]).
clear_values(raw, x) == [k \in 1 .. raw.len |-> x]

Buffer_clear ==
  \E b \in Slots : \E ok \in OkOf(bufs[b]) :
    \E x \in ValuesOf(bufs[b].size) :
      BulkWrite("clear", b, clear_values(bufs[b], x), ok)

\* fill: write_whole(values), and nothing else.
Buffer_fill ==
  \E b \in Slots : \E ok \in OkOf(bufs[b]) :
    \E values \in Slices(bufs[b].size) :
      BulkWrite("write_whole", b, values, ok)

\* ---------------------------------------------------- Buffer::to_raw
\* DeleteBuffers calls for handle h among the calls cs.
RECURSIVE Deletes(_, _)
Deletes(cs, h) ==
  IF cs = <<>> THEN 0
  ELSE (IF Head(cs).fn = "DeleteBuffers" /\ Head(cs).h = h THEN 1 ELSE 0)
       + Deletes(Tail(cs), h)

\* A to_raw that does not forget self: self is dropped when to_raw returns,
\* its RawBuffer first (DeleteBuffers), then its Rc.
to_raw_drops_self(g, raw, count) ==
  [g |-> DeleteBuffers(g, raw.handle),
   raw |-> RawBuffer("raw", raw.handle, raw.bytes, raw.len, raw.size),
   rc |-> count]

\* A to_raw that puts the byte size where the element count goes.
to_raw_len_in_bytes(g, raw, count) ==
  [g |-> g,
   raw |-> RawBuffer("raw", raw.handle, raw.bytes, raw.bytes, raw.size),
   rc |-> count + 1]

\* to_raw: a new RawBuffer of the same fields with a clone of the Rc; self is
\* forgotten, so neither its RawBuffer nor its Rc is dropped.
to_raw(g, raw, count) ==
  [g |-> g,
   raw |-> RawBuffer("raw", raw.handle, raw.bytes, raw.len, raw.size),
   rc |-> count + 1]

\* Buffer::to_raw, and From<Buffer<T>> for RawBuffer which calls it.
Buffer_to_raw ==
  \E b \in Slots :
    /\ Idle
    /\ bufs[b].kind = "typed"
    /\ views[b] = 0 /\ ~mutviews[b]
    /\ LET r == to_raw(GS, bufs[b], rc)
       IN /\ bufs' = [bufs EXCEPT ![b] = r.raw]
          /\ rc' = r.rc
          /\ destroys' = [destroys EXCEPT
                            ![b] = @ + Deletes(r.g.calls, bufs[b].handle)]
          /\ Commit(Ret(r.g, "RawBuffer", r.raw.handle, 0, <<>>),
                    "to_raw", b, 0, 0, <<>>)
    /\ UNCHANGED <<views, mutviews, asked, ncreated>>

\* ---------------------------------------------- impl Drop for RawBuffer
drop(g, raw) == DeleteBuffers(g, raw.handle)

\* A Buffer<T> or a RawBuffer goes out of scope: its RawBuffer is dropped,
\* then its Rc.  The record keeps what was dropped (tag) and its handle (x).
RawBuffer_drop ==
  \E b \in Slots :
    /\ Idle
    /\ Live(b)
    /\ views[b] = 0 /\ ~mutviews[b]
    /\ LET g == drop(GS, bufs[b])
       IN /\ destroys' = [destroys EXCEPT
                            ![b] = @ + Deletes(g.calls, bufs[b].handle)]
          /\ Commit(Ret(g, bufs[b].kind, bufs[b].handle, 0, <<>>),
                    "drop", b, 0, 0, <<>>)
    /\ bufs' = [bufs EXCEPT ![b] = [NoBuffer EXCEPT !.kind = "dropped"]]
    /\ rc' = rc - 1
    /\ UNCHANGED <<views, mutviews, asked, ncreated>>

\* ------------------------------------------------ RawBuffer::as_slice
\* Views of one buffer that may be live at once in a run.
MaxViews == 2

\* An as_slice without the null check.
as_slice_unchecked(g, raw, ok) ==
  LET g1 == bind_array_buffer(g, raw.handle)
  IN Ret(MapBuffer(g1, "READ_ONLY", ok), "BufferSlice", MapRet(g1, ok), 0, <<>>)

as_slice(g, raw, ok) ==
  LET g1 == bind_array_buffer(g, raw.handle)
      ptr == MapRet(g1, ok)
      g2 == MapBuffer(g1, "READ_ONLY", ok)
  IN IF ptr = 0 THEN Ret(g2, "MapFailed", 0, 0, <<>>)
     ELSE Ret(g2, "BufferSlice", ptr, 0, <<>>)

\* RawBuffer::as_slice, and Buffer::as_slice which calls it.
RawBuffer_as_slice ==
  \E b \in Slots : \E ok \in OkOf(bufs[b]) :
    /\ Idle
    /\ Live(b)
    /\ ~mutviews[b]
    /\ views[b] < MaxViews
    /\ LET r == as_slice(GS, bufs[b], ok)
       IN /\ Commit(r, "as_slice", b, 0, 0, <<>>)
          /\ views' = IF r.tag = "BufferSlice"
                        THEN [views EXCEPT ![b] = @ + 1] ELSE views
    /\ UNCHANGED <<bufs, mutviews, rc, asked, destroys, ncreated>>

\* An as_slice_mut without the null check.
as_slice_mut_unchecked(g, raw, ok) ==
  LET g1 == bind_array_buffer(g, raw.handle)
  IN Ret(MapBuffer(g1, "READ_WRITE", ok), "BufferSliceMut", MapRet(g1, ok), 0, <<>>)

as_slice_mut(g, raw, ok) ==
  LET g1 == bind_array_buffer(g, raw.handle)
      ptr == MapRet(g1, ok)
      g2 == MapBuffer(g1, "READ_WRITE", ok)
  IN IF ptr = 0 THEN Ret(g2, "MapFailed", 0, 0, <<>>)
     ELSE Ret(g2, "BufferSliceMut", ptr, 0, <<>>)

\* RawBuffer::as_slice_mut, and Buffer::as_slice_mut which calls it.
RawBuffer_as_slice_mut ==
  \E b \in Slots : \E ok \in OkOf(bufs[b]) :
    /\ Idle
    /\ Live(b)
    /\ views[b] = 0 /\ ~mutviews[b]
    /\ LET r == as_slice_mut(GS, bufs[b], ok)
       IN /\ Commit(r, "as_slice_mut", b, 0, 0, <<>>)
          /\ mutviews' = IF r.tag = "BufferSliceMut"
                           THEN [mutviews EXCEPT ![b] = TRUE] ELSE mutviews
    /\ UNCHANGED <<bufs, views, rc, asked, destroys, ncreated>>

\* --------------------------------- impl Drop for BufferSlice / BufferSliceMut
\* A release that unmaps whatever is bound.
BufferSlice_drop_unbound(g, raw) == UnmapBuffer(g)

\* Drop for BufferSlice: bind the owner's handle, unmap.
BufferSlice_drop_body(g, raw) == UnmapBuffer(bind_array_buffer(g, raw.handle))

BufferSlice_drop ==
  \E b \in Slots :
    /\ Idle
    /\ views[b] > 0
    /\ views' = [views EXCEPT ![b] = @ - 1]
    /\ Commit(Ret(BufferSlice_drop_body(GS, bufs[b]), "", 0, 0, <<>>),
              "drop_slice", b, 0, 0, <<>>)
    /\ UNCHANGED <<bufs, mutviews, rc, asked, destroys, ncreated>>

\* Drop for BufferSliceMut: the same two calls.
BufferSliceMut_drop_body(g, raw) == UnmapBuffer(bind_array_buffer(g, raw.handle))

BufferSliceMut_drop ==
  \E b \in Slots :
    /\ Idle
    /\ mutviews[b]
    /\ mutviews' = [mutviews EXCEPT ![b] = FALSE]
    /\ Commit(Ret(BufferSliceMut_drop_body(GS, bufs[b]), "", 0, 0, <<>>),
              "drop_slice_mut", b, 0, 0, <<>>)
    /\ UNCHANGED <<bufs, views, rc, asked, destroys, ncreated>>

\* ------------------------------- impl Deref / DerefMut for the two views
\* The slice a view derefs to: slice::from_raw_parts(self.ptr, self.raw.len).
\* Its element i is in mapped memory only while the mapping the view was made
\* from is still there and holds element i.
ViewValid(g, raw, i) ==
  raw.size = 0 \/ (raw.handle \in g.gl_mapped /\ i < Len(g.gl_store[raw.handle]))

\* Reading element i of the slice: junk and crash are the outcomes of the
\* read when it is invalid.
deref(g, raw, i, junk, crash) ==
  IF raw.size = 0 THEN Ret(g, "T", 0, 0, <<>>)
  ELSE IF ViewValid(g, raw, i) THEN Ret(g, "T", g.gl_store[raw.handle][i + 1], 0, <<>>)
  ELSE IF crash THEN Ret(g, "crash", 0, 0, <<>>)
  ELSE Ret(g, "T", junk, 0, <<>>)

\* view[i] on a BufferSlice, i < view.len() (a greater i panics in the slice).
BufferSlice_deref ==
  \E b \in Slots, i \in Idx :
    \E junk \in (IF ViewValid(GS, bufs[b], i) THEN {0} ELSE Values),
       crash \in (IF ViewValid(GS, bufs[b], i) THEN {FALSE} ELSE BOOLEAN) :
      /\ Idle
      /\ views[b] > 0
      /\ i < bufs[b].len
      /\ Finish(deref(GS, bufs[b], i, junk, crash), "deref", b, i, 0, <<>>)

\* Writing element i of the mutable slice: an invalid write either kills the
\* process (crash) or is lost.
deref_mut(g, raw, i, x, crash) ==
  IF raw.size = 0 THEN Ret(g, "", 0, 0, <<>>)
  ELSE IF ViewValid(g, raw, i)
    THEN Ret([g EXCEPT !.gl_store[raw.handle][i + 1] = x], "", 0, 0, <<>>)
  ELSE IF crash THEN Ret(g, "crash", 0, 0, <<>>)
  ELSE Ret(g, "", 0, 0, <<>>)

\* view[i] = x on a BufferSliceMut, i < view.len().
BufferSliceMut_deref_mut ==
  \E b \in Slots, i \in Idx :
    \E x \in ValuesOf(bufs[b].size),
       crash \in (IF ViewValid(GS, bufs[b], i) THEN {FALSE} ELSE BOOLEAN) :
      /\ Idle
      /\ mutviews[b]
      /\ i < bufs[b].len
      /\ Finish(deref_mut(GS, bufs[b], i, x, crash), "deref_mut", b, i, x, <<>>)

\* The caller has taken the result of the call and goes on to its next
\* statement.
Return ==
  /\ ~crashed
  /\ last # NoLast
  /\ last' = NoLast
  /\ calls' = <<>>
  /\ UNCHANGED <<bufs, views, mutviews, rc, bound_array_buffer, gl_bound,
                 gl_names, gl_store, gl_mapped, crashed, asked, destroys,
                 ncreated, queried>>

\* ------------------------------------------------------ specifications
Next ==
  \/ Buffer_new
  \/ Buffer_at
  \/ Buffer_whole
  \/ Buffer_set
  \/ Buffer_write_whole
  \/ Buffer_clear
  \/ Buffer_fill
  \/ Buffer_to_raw
  \/ RawBuffer_drop
  \/ RawBuffer_as_slice
  \/ RawBuffer_as_slice_mut
  \/ BufferSlice_drop
  \/ BufferSliceMut_drop
  \/ BufferSlice_deref
  \/ BufferSliceMut_deref_mut
  \/ Return

Spec == Init /\ [][Next]_vars

\* Only creation, conversion, view acquisition, view release and drop.
NextViews ==
  \/ Buffer_new
  \/ Buffer_to_raw
  \/ RawBuffer_drop
  \/ RawBuffer_as_slice
  \/ RawBuffer_as_slice_mut
  \/ BufferSlice_drop
  \/ BufferSliceMut_drop
  \/ Return

SpecViews == Init /\ [][NextViews]_vars

\* Creation with any element count, the accesses by index, the bulk write,
\* conversion and drop.
NextCapacity ==
  \/ Buffer_new
  \/ Buffer_new_large
  \/ Buffer_at
  \/ Buffer_set
  \/ Buffer_write_whole
  \/ Buffer_to_raw
  \/ RawBuffer_drop
  \/ Return

SpecCapacity == Init /\ [][NextCapacity]_vars

\* Only questions to the trait system.
NextUniform == UniformBlock_query

SpecUniform == Init /\ [][NextUniform]_vars

\* ------------------------------------------------------------ properties
\* The elements of a buffer: those of its data store; a buffer of a zero-sized
\* T holds len copies of the one value of T.
ElemsIn(store, raw) ==
  IF raw.size = 0 THEN [k \in 1 .. raw.len |-> 0] ELSE store[raw.handle]

Elems(raw) == ElemsIn(gl_store, raw)

\* Element i of a buffer, or -1 when its store has no element i.
Elem(raw, i) == IF i < Len(Elems(raw)) THEN Elems(raw)[i + 1] ELSE -1

\* The positions in the calls cs of the calls of driver function fn.
CallsOf(cs, fn) == {k \in 1 .. Len(cs) : cs[k].fn = fn}

\* C1: a Buffer<T> made by Buffer::new(ctx, N) reports len() = N at every
\* point of its life, whatever operations have run on it or on other buffers.
C1_LenIsConstructionLength ==
  \A b \in Slots : bufs[b].kind = "typed" => len(bufs[b]) = asked[b]

\* A buffer made with the largest length has just been written by set.
C1_Witness ==
  /\ last.op = "set" /\ last.tag = "Ok"
  /\ bufs[last.buf].kind = "typed"
  /\ asked[last.buf] = MaxLen

\* C2: on a buffer of N elements, set(i, v) with i < N returns Ok and leaves v
\* at index i, and at(i) with i < N returns Some of the element stored at i
\* (so at after set, with no write in between, returns Some(v)).
C2_SetThenAt ==
  /\ (last.op = "set" /\ last.i < last.n) =>
       (last.tag = "Ok" /\ Elem(bufs[last.buf], last.i) = last.v)
  /\ (last.op = "at" /\ last.i < last.n) =>
       (last.tag = "Some" /\ last.x = Elem(bufs[last.buf], last.i))

\* C3: on a buffer of N elements, at(i) with i >= N returns None and set(i, v)
\* with i >= N returns Err(Overflow(i, N)); neither issues a driver call, and
\* the buffers and the driver are left as they were.
C3_OutOfRangeRejected ==
  [][(last = NoLast /\ last'.op \in {"at", "set"} /\ last'.i >= last'.n) =>
       /\ last'.op = "at" => last'.tag = "None"
       /\ last'.op = "set" =>
            (last'.tag = "Overflow" /\ last'.x = last'.i /\ last'.y = last'.n)
       /\ calls' = <<>>
       /\ UNCHANGED <<driver, bufs, views, mutviews>>]_vars

\* set was called with an index past the end of a non-empty buffer.
C3_Witness ==
  /\ last.op = "set" /\ last.tag = "Overflow"
  /\ last.n = 1 /\ last.i = 2 /\ last.y = 1

\* C4: write_whole (and fill) with a slice of g # N elements returns
\* Err(TooFewValues(g, N)) when g < N and Err(TooManyValues(g, N)) when g > N,
\* for every element size, and issues no driver call.
C4_LengthMismatchRejected ==
  (last.op = "write_whole" /\ last.i # last.n) =>
    /\ last.tag = (IF last.i < last.n THEN "TooFewValues" ELSE "TooManyValues")
    /\ last.x = last.i /\ last.y = last.n
    /\ calls = <<>>

\* C5: write_whole(s) with |s| = N returns Ok and leaves the buffer holding s,
\* and whole() returns the N elements the buffer holds, in order.
C5_WriteWholeThenWhole ==
  /\ (last.op = "write_whole" /\ last.i = last.n) =>
       (last.tag = "Ok" /\ Elems(bufs[last.buf]) = last.vals)
  /\ last.op = "whole" =>
       (last.tag = "Vec" /\ last.vec = Elems(bufs[last.buf]))

\* C6: clear(v) returns Ok, never a size mismatch, and leaves the buffer
\* holding N copies of v, which is what whole() then returns.
C6_ClearThenWhole ==
  /\ last.op = "clear" =>
       /\ last.tag = "Ok"
       /\ Len(last.vals) = last.n
       /\ Elems(bufs[last.buf]) = last.vals
  /\ last.op = "whole" =>
       /\ last.tag = "Vec"
       /\ (\E v \in Values : Elems(bufs[last.buf]) = [k \in 1 .. last.n |-> v]) =>
            last.vec = Elems(bufs[last.buf])

\* C7: DeleteBuffers is issued exactly once for each buffer, when its owner
\* (the Buffer<T>, or the RawBuffer to_raw made of it) is dropped: never while
\* the buffer is live, never by to_raw or by any other operation.
C7_SingleDestruction ==
  /\ \A b \in Slots :
       /\ Live(b) => destroys[b] = 0
       /\ bufs[b].kind = "dropped" => destroys[b] = 1
  /\ last.op = "drop" => calls = <<CallRec("DeleteBuffers", last.x, 0, "", "")>>
  /\ last.op # "drop" => CallsOf(calls, "DeleteBuffers") = {}

\* The RawBuffer that to_raw made of a buffer has been dropped.
C7_Witness ==
  /\ last.op = "drop" /\ last.tag = "raw"
  /\ bufs[last.buf].kind = "dropped"
  /\ destroys[last.buf] = 1

\* C8: the release of a BufferSlice or BufferSliceMut first binds the owner's
\* handle through the tracker and then issues exactly one UnmapBuffer, which
\* so targets the owner's handle; the release takes exactly one view away.
C8_ReleaseBindsThenUnmapsOnce ==
  [][(last = NoLast /\ last'.op \in {"drop_slice", "drop_slice_mut"}) =>
       LET b == last'.buf
           h == bufs[b].handle
           one == IF mutviews[b] THEN 1 ELSE 0
           one_after == IF mutviews'[b] THEN 1 ELSE 0
       IN /\ calls'[1] = CallRec("bind_array_buffer", h, 0, "", "")
          /\ CallsOf(calls', "UnmapBuffer") = {Len(calls')}
          /\ calls'[Len(calls')].h = h
          /\ \A k \in CallsOf(calls', "BindBuffer") : calls'[k].h = h
          /\ views'[b] + one_after = views[b] + one - 1
          /\ \A c \in Slots \ {b} : views'[c] = views[c] /\ mutviews'[c] = mutviews[c]
     ]_vars

\* A view was released after another buffer had been bound: the release had
\* to bind the owner again.
C8_Witness ==
  /\ last.op = "drop_slice"
  /\ Len(calls) = 3
  /\ calls[2].fn = "BindBuffer"

\* C9: as_slice and as_slice_mut return Err(MapFailed) exactly when MapBuffer
\* returned null; then no view exists for the call and no UnmapBuffer was
\* issued.  Otherwise the call made exactly one view.
C9_MapFailedIffNull ==
  [][(last = NoLast /\ last'.op \in {"as_slice", "as_slice_mut"}) =>
       LET b == last'.buf
           maps == CallsOf(calls', "MapBuffer")
           null == \E k \in maps : calls'[k].ret = "null"
       IN /\ Cardinality(maps) = 1
          /\ (last'.tag = "MapFailed") <=> null
          /\ CallsOf(calls', "UnmapBuffer") = {}
          /\ null => (views' = views /\ mutviews' = mutviews)
          /\ (~null /\ last'.op = "as_slice") =>
               /\ last'.tag = "BufferSlice"
               /\ views' = [views EXCEPT ![b] = @ + 1] /\ mutviews' = mutviews
          /\ (~null /\ last'.op = "as_slice_mut") =>
               /\ last'.tag = "BufferSliceMut"
               /\ mutviews' = [mutviews EXCEPT ![b] = TRUE] /\ views' = views
     ]_vars

\* as_slice_mut was refused its mapping and made no view.
C9_Witness ==
  /\ last.op = "as_slice_mut" /\ last.tag = "MapFailed"
  /\ ~mutviews[last.buf]
  /\ \E k \in CallsOf(calls, "MapBuffer") : calls[k].ret = "null"

\* C10: in any sequence of as_slice / as_slice_mut acquisitions and view
\* releases, each handle has at most one live view, immutable or mutable; the
\* handle of a live view is mapped and belongs to one buffer.
C10_OneViewPerHandle ==
  \A b \in Slots :
    /\ views[b] + (IF mutviews[b] THEN 1 ELSE 0) <= 1
    /\ (views[b] > 0 \/ mutviews[b]) =>
         /\ Live(b)
         /\ bufs[b].handle \in gl_mapped
         /\ \A c \in Slots \ {b} : Live(c) => bufs[c].handle # bufs[b].handle

\* as_slice was called again while a view of the same buffer was live, and
\* was refused: the one view is still there.
C10_Witness ==
  \E b \in Slots :
    /\ last.op = "as_slice" /\ last.buf = b /\ last.tag = "MapFailed"
    /\ views[b] = 1
    /\ bufs[b].handle \in gl_mapped

\* C11: a write of v to element i through a BufferSliceMut changes element i
\* to v and no other element, the release of the view leaves the elements as
\* they are, and a whole() called afterwards returns the elements the buffer
\* then holds (so element i is v, the others what they were).
C11_ViewWriteThenWhole ==
  [][/\ (last = NoLast /\ last'.op = "deref_mut") =>
          /\ last'.tag # "crash"
          /\ ElemsIn(gl_store', bufs[last'.buf]) =
               [k \in 1 .. Len(Elems(bufs[last'.buf])) |->
                  IF k = last'.i + 1 THEN last'.v ELSE Elems(bufs[last'.buf])[k]]
     /\ (last = NoLast /\ last'.op = "drop_slice_mut") =>
          ElemsIn(gl_store', bufs[last'.buf]) = Elems(bufs[last'.buf])
     /\ (last = NoLast /\ last'.op = "whole") =>
          /\ last'.tag = "Vec"
          /\ last'.vec = Elems(bufs[last'.buf])
    ]_vars

\* C12: whole() returns a freshly owned copy: the N elements the buffer holds
\* at the call, in storage of its own, which is not the mapped region (so the
\* unmap, later writes, the buffer's destruction and the Vec's own drop do not
\* touch one another).
C12_WholeIsOwnedCopy ==
  last.op = "whole" =>
    /\ last.tag = "Vec"
    /\ last.vec = Elems(bufs[last.buf])
    /\ last.x \notin Handles

\* C13: when MapBuffer returns null inside at, whole, set or write_whole (and
\* clear, fill), the operation does not go through the null pointer: it
\* returns, and what it returns is the refusal (MapFailed).
C13_NullMapSurfaced ==
  (/\ last.op \in {"at", "whole", "set", "write_whole", "clear"}
   /\ \E k \in CallsOf(calls, "MapBuffer") : calls[k].ret = "null") =>
    last.tag = "MapFailed"

\* The set the specification enumerates, with tuples of arity 2 to maxarity:
\* the nine scalars, the three float matrices, arrays of length 2, 3, 4 of a
\* listed scalar, slices of a member, tuples whose components are members.
RECURSIVE Enumerated(_, _)
Enumerated(ty, maxarity) ==
  \/ ty.kind = "scalar" /\ ty.name \in {"u8", "u16", "u32", "i8", "i16", "i32", "f32", "f64", "bool"}
  \/ ty.kind = "matrix" /\ ty.name \in {"M22", "M33", "M44"}
  \/ ty.kind = "array" /\ ty.n \in 2 .. 4
       /\ ty.name \in {"u8", "u16", "u32", "i8", "i16", "i32", "f32", "f64", "bool"}
  \/ ty.kind = "slice" /\ Enumerated(ty.of[1], maxarity)
  \/ ty.kind = "tuple" /\ Len(ty.of) \in 2 .. maxarity
       /\ \A k \in 1 .. Len(ty.of) : Enumerated(ty.of[k], maxarity)

C15_ByteCapacityIsProduct ==
  /\ \A b \in Slots : Live(b) => bufs[b].bytes = bufs[b].len * bufs[b].size
  /\ last.op = "new" =>
       /\ last.tag = "Buffer"
       /\ \A k \in CallsOf(calls, "BufferData") :
            AsIsize(calls[k].n) = last.i * bufs[last.buf].size

\* C16: every MapBuffer (and new's BufferData) an operation on buffer B
\* issues comes after a bind_array_buffer of B's handle, with no bind of
\* another handle in between, and is never aimed at another buffer; an
\* operation that returns leaves the store and the mapping of every other
\* buffer as they were.
C16_BindBeforeMap ==
  [][(last = NoLast /\ last' # NoLast) =>
       LET h == IF last'.op = "new" THEN last'.x ELSE bufs[last'.buf].handle
           cs == calls'
           uses == CallsOf(cs, "MapBuffer") \cup CallsOf(cs, "BufferData")
       IN /\ \A k \in uses :
               /\ \E j \in 1 .. (k - 1) :
                    /\ cs[j].fn = "bind_array_buffer" /\ cs[j].h = h
                    /\ \A m \in (j + 1) .. (k - 1) :
                         cs[m].fn \in {"bind_array_buffer", "BindBuffer"} => cs[m].h = h
               /\ cs[k].h \in {h, 0}
          /\ ~crashed' =>
               \A c \in Slots :
                 (Live(c) /\ bufs[c].handle # h) =>
                   /\ gl_store'[bufs[c].handle] = gl_store[bufs[c].handle]
                   /\ (bufs[c].handle \in gl_mapped') = (bufs[c].handle \in gl_mapped)
     ]_vars

\* set wrote to one buffer, binding it first, while another buffer was the
\* one bound and holds elements of its own.
C16_Witness ==
  /\ last.op = "set" /\ last.tag = "Ok"
  /\ CallsOf(calls, "BindBuffer") # {}
  /\ \E k \in CallsOf(calls, "MapBuffer") : calls[k].ret = "ptr"
  /\ \E c \in Slots \ {last.buf} : Live(c) /\ Len(gl_store[bufs[c].handle]) > 0

\* C17: an UnmapBuffer is issued only for a handle with an outstanding
\* successful map: at, whole, set and write_whole unmap no more often than
\* their MapBuffer succeeded, and the mapping of a live view is never released
\* under it.
C17_MapUnmapPairing ==
  /\ last.op \in {"at", "whole", "set", "write_whole", "clear"} =>
       Cardinality(CallsOf(calls, "UnmapBuffer")) <=
         Cardinality({k \in CallsOf(calls, "MapBuffer") : calls[k].ret = "ptr"})
  /\ \A b \in Slots :
       (views[b] > 0 \/ mutviews[b]) => bufs[b].handle \in gl_mapped

\* C18: to_raw (and From<Buffer<T>>) hands back a RawBuffer with the handle,
\* the bytes and the len of the Buffer<T> it consumed; it issues no driver
\* call and leaves the driver, the tracker's record and the other buffers as
\* they were.
C18_ToRawIsOwnershipTransfer ==
  [][(last = NoLast /\ last'.op = "to_raw") =>
       LET b == last'.buf
       IN /\ bufs[b].kind = "typed" /\ bufs'[b].kind = "raw"
          /\ bufs'[b].handle = bufs[b].handle
          /\ bufs'[b].bytes = bufs[b].bytes
          /\ bufs'[b].len = bufs[b].len
          /\ last'.x = bufs[b].handle
          /\ calls' = <<>>
          /\ UNCHANGED driver
          /\ \A c \in Slots \ {b} : bufs'[c] = bufs[c]
     ]_vars

\* A buffer of the largest length, with elements of four bytes, was converted.
C18_Witness ==
  /\ last.op = "to_raw" /\ last.tag = "RawBuffer"
  /\ bufs[last.buf].kind = "raw"
  /\ bufs[last.buf].len = MaxLen
  /\ bufs[last.buf].bytes = 4 * MaxLen
  /\ bufs[last.buf].handle \in gl_names

\* C19: whenever a MapBuffer or an UnmapBuffer is issued, the handle the
\* tracker records as bound (the one given to the last bind_array_buffer) is
\* the handle the driver has bound, also after a bound buffer was dropped and
\* its handle value came back with a later buffer.
C19_TrackerMatchesDriver ==
  \A k \in CallsOf(calls, "MapBuffer") \cup CallsOf(calls, "UnmapBuffer") :
    \E j \in CallsOf(calls, "bind_array_buffer") :
      /\ j < k
      /\ \A m \in CallsOf(calls, "bind_array_buffer") : m < k => m <= j
      /\ calls[k].h = calls[j].h

\* C20: each live Buffer<T> or RawBuffer holds exactly one reference to the
\* shared GraphicsState, so the strong count is its value before the first
\* Buffer::new plus the number of live buffers, and is back to that value
\* once every buffer has been dropped.
C20_NoLeakedReference ==
  ~crashed => rc = 1 + Cardinality({b \in Slots : Live(b)})

\* C21: a set(i, v) with i < N that returns changes no element but element
\* i, leaves the len, the bytes and the handle of the buffer (and every other
\* buffer and store) as they were, and leaves the buffer unmapped.
C21_FrameOfSet ==
  [][(last = NoLast /\ last'.op = "set" /\ last'.i < last'.n /\ ~crashed') =>
       LET b == last'.buf
           before == Elems(bufs[b])
           after == ElemsIn(gl_store', bufs[b])
       IN /\ Len(after) = Len(before)
          /\ \A j \in 1 .. Len(before) : j # last'.i + 1 => after[j] = before[j]
          /\ bufs' = bufs
          /\ \A h \in Handles \ {bufs[b].handle} : gl_store'[h] = gl_store[h]
          /\ gl_names' = gl_names
          /\ bufs[b].handle \notin gl_mapped'
     ]_vars

\* set changed the first of two elements and the second is not what was
\* written.
C21_Witness ==
  /\ last.op = "set" /\ last.tag = "Ok"
  /\ last.n = 2 /\ last.i = 0
  /\ Len(Elems(bufs[last.buf])) = 2
  /\ Elems(bufs[last.buf])[1] = last.v
  /\ Elems(bufs[last.buf])[2] # last.v

\* The calls of a set(i, v) that returned Ok, with the access it asked of
\* MapBuffer: one bind_array_buffer of the buffer's handle (with the
\* BindBuffer it makes, if any), then one MapBuffer, then one UnmapBuffer.
SetCallsWith(access) ==
  (last.op = "set" /\ last.tag = "Ok") =>
    LET h == bufs[last.buf].handle
        n == Len(calls)
    IN /\ n \in {3, 4}
       /\ calls[1] = CallRec("bind_array_buffer", h, 0, "", "")
       /\ n = 4 => calls[2] = CallRec("BindBuffer", h, 0, "", "")
       /\ calls[n - 1].fn = "MapBuffer" /\ calls[n - 1].acc = access
       /\ calls[n].fn = "UnmapBuffer"

\* C22 as stated: a successful set(i, v) asks the driver for one read-write
\* mapping, after one bind of the buffer's handle and before one unmap.
C22_SetMapsReadWrite == SetCallsWith("READ_WRITE")

\* C22, amended: a successful set(i, v) asks the driver for one write-only
\* mapping, after one bind of the buffer's handle and before one unmap.
C22_SetMapsWriteOnly == SetCallsWith("WRITE_ONLY")

\* A set returned Ok after binding its buffer anew and writing through a
\* mapping the driver granted.
C22_Witness ==
  /\ last.op = "set" /\ last.tag = "Ok"
  /\ Len(calls) = 4
  /\ calls[3].fn = "MapBuffer" /\ calls[3].ret = "ptr" /\ calls[3].acc = "WRITE_ONLY"
  /\ Elem(bufs[last.buf], last.i) = last.v

====
